---------------------------- MODULE Spec2Model ----------------------------
(***************************************************************************)
(* Model of src/app.py, the CTCL gene explorer dashboard.                  *)
(*                                                                         *)
(* The script is re-executed top to bottom on every user interaction.  One *)
(* action of the model is one such render pass, from load_data() to the    *)
(* insight panel, triggered by one interaction (plain rerun, quick-select  *)
(* button, free-text entry, display-mode radio).  The state that survives  *)
(* between passes is the process-wide resource cache of load_data, the     *)
(* session's session_state and the values held by the widgets.             *)
(*                                                                         *)
(* Strings that the program transforms (gene symbols, typed text) are      *)
(* sequences of one-character strings, so that str.upper() is computed     *)
(* character by character.  Expression values are integers counted in      *)
(* units of 1/Denom; means are exact fractions num/den.                    *)
(***************************************************************************)
EXTENDS Integers, Sequences, FiniteSets, TLC

VARIABLES
    file,           \* content of 'ctcl_app_light.h5ad' on disk
    cache,          \* st.cache_resource entry of load_data: <<>> or <<adata>>
    reads,          \* number of sc.read_h5ad calls made by the process
    session_state,  \* st.session_state: a function whose domain is {} or {"gene"}
    text_widget,    \* the sidebar text_input as the front end holds it
    radio_widget,   \* the "Color Cells By:" radio as the front end holds it
    event,          \* the interaction that triggered the last pass
    out             \* what the last pass rendered

vars == <<file, cache, reads, session_state, text_widget, radio_widget, event, out>>

----------------------------------------------------------------------------
(* Bounds of the model *)

MaxCells == 2       \* a dataset has 1..MaxCells cells
Denom == 2          \* an expression value is k/Denom
MaxReads == 2       \* failed loads that are followed before the model stops

ExprLevels == {0, 1, 2}   \* numerators k of the expression values k/Denom

----------------------------------------------------------------------------
(* Text *)

Lower == <<"a","b","c","d","e","f","g","h","i","j","k","l","m",
           "n","o","p","q","r","s","t","u","v","w","x","y","z">>
UpperCase == <<"A","B","C","D","E","F","G","H","I","J","K","L","M",
               "N","O","P","Q","R","S","T","U","V","W","X","Y","Z">>

\* variant: the text is looked up as typed, without .upper()
IdentityChar(c) == c

\* str.upper() on one character: a-z map to A-Z, everything else is kept
UpperChar(c) ==
    IF \E i \in DOMAIN Lower : Lower[i] = c
    THEN UpperCase[CHOOSE i \in DOMAIN Lower : Lower[i] = c]
    ELSE c

\* str.upper()
Upper(s) == [i \in DOMAIN s |-> UpperChar(s[i])]

TOX == <<"T","O","X">>
CCR4 == <<"C","C","R","4">>
CD3E == <<"C","D","3","E">>
MKI67 == <<"M","K","I","6","7">>

\* what the user may type into the free-text field
Texts == { <<"t","o","x">>, <<"T","O","X">>, <<"C","c","r","4">>, <<"x","y">> }

----------------------------------------------------------------------------
(* The dataset *)

TUMOR == "CTCL (Tumor)"
ECZEMA == "Eczema (Benign)"
NORMAL == "Normal"
Conditions == {TUMOR, ECZEMA, NORMAL}

\* how adata.X is stored: a scipy sparse matrix, a numpy array, or an object
\* that has neither .toarray() nor .flatten() (a backed on-disk matrix)
MatrixKinds == {"sparse", "dense", "backed"}

FeatureIndexes == {{TOX}, {CCR4}}

DatasetsOf(v, n) ==
    { [var_names |-> v, kind |-> k, obs |-> o, X |-> x] :
        k \in MatrixKinds,
        o \in [1..n -> Conditions],
        x \in [v -> [1..n -> ExprLevels]] }

Datasets == UNION { DatasetsOf(v, n) : v \in FeatureIndexes, n \in 1..MaxCells }

\* the datasets whose cells are a tumor cell, then an eczema cell, then
\* normal cells: the files the interactive sessions are explored against
CohortOrder(n) == [i \in 1..n |-> IF i = 1 THEN TUMOR ELSE IF i = 2 THEN ECZEMA ELSE NORMAL]
SessionDatasets == { d \in Datasets : d.obs = CohortOrder(Len(d.obs)) }

----------------------------------------------------------------------------
(* 1. Data loading (cached) *)

\* variant: load_data without the cache decorator
CacheHitNever(c) == FALSE

\* @st.cache_resource: the function body runs only when no entry is cached
CacheHit(c) == c # <<>>

----------------------------------------------------------------------------
(* 2. Sidebar controls *)

ButtonLabels == {"TOX (Exhaustion)", "CCR4 (Target)", "CD3E (T-Cell)", "MKI67 (Prolif.)"}
NoButton == "none"

\* variant: another default symbol
DefaultGeneCCR4 == CCR4

\* if 'gene' not in st.session_state: st.session_state['gene'] = "TOX"
DefaultGene == TOX

InitSessionState(ss) ==
    IF "gene" \in DOMAIN ss THEN ss ELSE ("gene" :> DefaultGene)

\* the four button ifs, in source order; `pressed` is the button clicked
QuickSelect(ss, pressed) ==
    LET s1 == IF pressed = "TOX (Exhaustion)" THEN [ss EXCEPT !["gene"] = TOX] ELSE ss
        s2 == IF pressed = "CCR4 (Target)" THEN [s1 EXCEPT !["gene"] = CCR4] ELSE s1
        s3 == IF pressed = "CD3E (T-Cell)" THEN [s2 EXCEPT !["gene"] = CD3E] ELSE s2
        s4 == IF pressed = "MKI67 (Prolif.)" THEN [s3 EXCEPT !["gene"] = MKI67] ELSE s3
    IN s4

NoTextWidget == [shown |-> FALSE, default |-> <<>>, edited |-> FALSE, text |-> <<>>]

\* The widget keeps what the user typed for as long as it is the same widget:
\* a text_input without a key is identified by its arguments, `value` included.
TextKept(w, value) == w.shown /\ w.default = value /\ w.edited

\* st.sidebar.text_input("Or type a gene symbol:", value=...)
TextInput(w, value) == IF TextKept(w, value) THEN w.text ELSE value

TextWidgetAfter(w, value) ==
    [shown |-> TRUE, default |-> value, edited |-> TextKept(w, value),
     text |-> TextInput(w, value)]

ViewOptions == {"Gene Expression", "Clinical Condition"}
NoRadioWidget == [shown |-> FALSE, value |-> "Gene Expression"]

\* st.radio("Color Cells By:", [...]): the first option until the user picks
Radio(w) == IF w.shown THEN w.value ELSE "Gene Expression"

----------------------------------------------------------------------------
(* 3. Main dashboard *)

\* variant: the quick-select symbols are taken to be in every dataset
GeneFoundAnyQuickSelect(adata, gene_input) ==
    gene_input \in adata.var_names \cup {TOX, CCR4, CD3E, MKI67}

\* if gene_input not in adata.var_names: ... else: ...
GeneFound(adata, gene_input) == gene_input \in adata.var_names

\* adata[:, gene_input].X as a plain sequence; <<>> stands for the KeyError
\* of a symbol that is not in the index (never reached behind GeneFound)
ExpressionColumn(adata, gene_input) ==
    IF gene_input \in DOMAIN adata.X THEN adata.X[gene_input] ELSE <<>>

\* Row 1, left column: one figure, coloured by the radio's choice
EmbeddingPlot(adata, gene_input, view_option) ==
    IF view_option = "Gene Expression"
    THEN [color |-> "gene", expression |-> ExpressionColumn(adata, gene_input),
          condition |-> <<>>, colors |-> "viridis",
          title_gene |-> gene_input, title |-> " Expression", legend |-> FALSE]
    ELSE [color |-> "condition", expression |-> <<>>,
          condition |-> adata.obs, colors |-> "Set1",
          title_gene |-> <<>>, title |-> "Clinical Diagnosis", legend |-> TRUE]

\* variant: no except branch, a dense matrix fails
ExtractionNoFallback(adata, gene_input) ==
    IF adata.kind = "sparse"
    THEN [ok |-> TRUE, path |-> "toarray", values |-> ExpressionColumn(adata, gene_input)]
    ELSE [ok |-> FALSE, path |-> "raised", values |-> <<>>]

\* try: .X.toarray().flatten()  except: .X.flatten()
\* toarray exists on a sparse matrix only; flatten on a numpy array only
Extraction(adata, gene_input) ==
    IF adata.kind = "sparse"
    THEN [ok |-> TRUE, path |-> "toarray", values |-> ExpressionColumn(adata, gene_input)]
    ELSE IF adata.kind = "dense"
         THEN [ok |-> TRUE, path |-> "flatten", values |-> ExpressionColumn(adata, gene_input)]
         ELSE [ok |-> FALSE, path |-> "raised", values |-> <<>>]

\* pd.DataFrame({'Expression': expression_values, 'Condition': adata.obs['condition']})
DataFrame(expression_values, condition) ==
    [i \in DOMAIN expression_values |->
        [Expression |-> expression_values[i], Condition |-> condition[i]]]

\* sns.violinplot(data=df_plot, x='Condition', y='Expression', palette='Set2')
ViolinPlot(df_plot) ==
    [data |-> df_plot, x |-> "Condition", y |-> "Expression", colors |-> "Set2"]

----------------------------------------------------------------------------
(* Row 2: analysis logic *)

NaN == [nan |-> TRUE, num |-> 0, den |-> 1]
Frac(n, d) == [nan |-> FALSE, num |-> n, den |-> d]

RECURSIVE SumWhere(_, _, _)
SumWhere(df, cond, i) ==
    IF i = 0 THEN 0
    ELSE SumWhere(df, cond, i - 1)
         + (IF df[i].Condition = cond THEN df[i].Expression ELSE 0)

CountWhere(df, cond) == Cardinality({i \in DOMAIN df : df[i].Condition = cond})

\* df_plot[df_plot['Condition'] == cond]['Expression'].mean():
\* the mean of an empty selection is NaN, it does not raise
Mean(df, cond) ==
    IF CountWhere(df, cond) = 0 THEN NaN
    ELSE Frac(SumWhere(df, cond, Len(df)), CountWhere(df, cond) * Denom)

\* float comparison and subtraction; every comparison with NaN is False
Gt(a, b) == ~a.nan /\ ~b.nan /\ a.num * b.den > b.num * a.den
Minus(a, b) ==
    IF a.nan \/ b.nan THEN NaN
    ELSE Frac(a.num * b.den - b.num * a.den, a.den * b.den)

SignificantNum == 1
SignificantDen == 2
Significant == Frac(SignificantNum, SignificantDen)    \* 0.5

NoInsight ==
    [kind |-> "none", gene |-> <<>>, mean_tumor |-> NaN, mean_eczema |-> NaN,
     trend |-> "", color |-> ""]
InsufficientData == [NoInsight EXCEPT !.kind = "info"]

\* variant: diff >= 0.5
Ge(a, b) == ~a.nan /\ ~b.nan /\ a.num * b.den >= b.num * a.den
ClassifyGe(mean_tumor, mean_eczema) ==
    IF Gt(mean_tumor, mean_eczema)
    THEN IF Ge(Minus(mean_tumor, mean_eczema), Significant)
         THEN [trend |-> "SIGNIFICANTLY HIGHER", color |-> "#d9534f"]
         ELSE [trend |-> "Slightly Higher", color |-> "#f0ad4e"]
    ELSE [trend |-> "Lower or Same", color |-> "#5cb85c"]

\* if mean_tumor > mean_eczema: (diff > 0.5 ? red : orange) else: green
Classify(mean_tumor, mean_eczema) ==
    IF Gt(mean_tumor, mean_eczema)
    THEN IF Gt(Minus(mean_tumor, mean_eczema), Significant)
         THEN [trend |-> "SIGNIFICANTLY HIGHER", color |-> "#d9534f"]
         ELSE [trend |-> "Slightly Higher", color |-> "#f0ad4e"]
    ELSE [trend |-> "Lower or Same", color |-> "#5cb85c"]

\* the body of the try block when no statement of it raises
Summary(df_plot, gene_input) ==
    LET mean_tumor == Mean(df_plot, TUMOR)
        mean_eczema == Mean(df_plot, ECZEMA)
        c == Classify(mean_tumor, mean_eczema)
    IN [kind |-> "summary", gene |-> gene_input,
        mean_tumor |-> mean_tumor, mean_eczema |-> mean_eczema,
        trend |-> c.trend, color |-> c.color]

\* variant: no try/except around the insight, the exception leaves the script
InsightNoExcept(df_plot, gene_input, raised) ==
    IF raised THEN [status |-> "insight_error", insight |-> NoInsight]
    ELSE [status |-> "ok", insight |-> Summary(df_plot, gene_input)]

\* try: ... except Exception: st.info("Insufficient data for automated insight.")
\* `raised` says that a statement of the try block raised
Insight(df_plot, gene_input, raised) ==
    IF raised THEN [status |-> "ok", insight |-> InsufficientData]
    ELSE [status |-> "ok", insight |-> Summary(df_plot, gene_input)]

NoOutput ==
    [status |-> "none", gene_input |-> <<>>, error |-> FALSE, view |-> "",
     umap |-> <<>>, extraction |-> "none", df_plot |-> <<>>, violin |-> <<>>,
     insight |-> NoInsight]

LoadFailure == [NoOutput EXCEPT !.status = "load_error"]

\* variant: the comparison column is built under the "Gene Expression" branch
MainDashboardViolinInExpressionMode(adata, gene_input, view_option, raised) ==
    LET x == Extraction(adata, gene_input)
        df == DataFrame(x.values, adata.obs)
        shown == x.ok /\ view_option = "Gene Expression"
        i == Insight(IF shown THEN df ELSE <<>>, gene_input, raised)
    IN IF ~GeneFound(adata, gene_input)
       THEN [NoOutput EXCEPT !.status = "ok", !.gene_input = gene_input, !.error = TRUE]
       ELSE [status |-> IF x.ok THEN i.status ELSE "extraction_error",
             gene_input |-> gene_input, error |-> FALSE, view |-> view_option,
             umap |-> <<EmbeddingPlot(adata, gene_input, view_option)>>,
             extraction |-> x.path,
             df_plot |-> IF shown THEN df ELSE <<>>,
             violin |-> IF shown THEN <<ViolinPlot(df)>> ELSE <<>>,
             insight |-> IF x.ok THEN i.insight ELSE NoInsight]

\* lines 83-193: title, membership check, the two plots, the insight
MainDashboard(adata, gene_input, view_option, raised) ==
    IF ~GeneFound(adata, gene_input)
    THEN [NoOutput EXCEPT !.status = "ok", !.gene_input = gene_input, !.error = TRUE]
    ELSE LET umap == EmbeddingPlot(adata, gene_input, view_option)
             x == Extraction(adata, gene_input)
         IN IF ~x.ok
            THEN \* the second failure propagates out of the script
                 [NoOutput EXCEPT !.status = "extraction_error",
                                  !.gene_input = gene_input, !.view = view_option,
                                  !.umap = <<umap>>, !.extraction = x.path]
            ELSE LET df_plot == DataFrame(x.values, adata.obs)
                     i == Insight(df_plot, gene_input, raised)
                 IN [status |-> i.status, gene_input |-> gene_input,
                     error |-> FALSE, view |-> view_option,
                     umap |-> <<umap>>, extraction |-> x.path,
                     df_plot |-> df_plot, violin |-> <<ViolinPlot(df_plot)>>,
                     insight |-> i.insight]

----------------------------------------------------------------------------
(* The render pass *)

NoEvent == [kind |-> "none", button |-> NoButton, text |-> <<>>, view |-> ""]

NoSession ==
    /\ cache = <<>>
    /\ reads = 0
    /\ session_state = <<>>
    /\ text_widget = NoTextWidget
    /\ radio_widget = NoRadioWidget
    /\ event = NoEvent
    /\ out = NoOutput

Init == file \in SessionDatasets /\ NoSession

\* One execution of the script.  ev is the interaction that triggered it;
\* pressed, tw and rw are the button clicked and the widget values the front
\* end sends with it.  readOk is the outcome of sc.read_h5ad when it runs,
\* raised says whether a statement of the insight try block raises.
Script(ev, pressed, tw, rw) ==
    \E readOk \in (IF CacheHit(cache) THEN {TRUE} ELSE BOOLEAN), raised \in BOOLEAN :
        LET hit == CacheHit(cache) IN
        /\ ~hit => reads < MaxReads
        /\ reads' = IF hit THEN reads ELSE reads + 1
        /\ event' = ev
        /\ file' = file
        /\ IF ~hit /\ ~readOk
           THEN \* load_data raises: nothing below line 45 runs
                /\ out' = LoadFailure
                /\ UNCHANGED <<cache, session_state, text_widget, radio_widget>>
           ELSE LET adata == IF hit THEN cache[1] ELSE file
                    ss == QuickSelect(InitSessionState(session_state), pressed)
                    gene_input == Upper(TextInput(tw, ss["gene"]))
                    view_option == Radio(rw)
                IN /\ cache' = <<adata>>
                   /\ session_state' = ss
                   /\ text_widget' = TextWidgetAfter(tw, ss["gene"])
                   /\ radio_widget' = IF GeneFound(adata, gene_input)
                                      THEN [shown |-> TRUE, value |-> view_option]
                                      ELSE NoRadioWidget
                   /\ out' = MainDashboard(adata, gene_input, view_option, raised)

\* the first pass of the session, or a rerun with nothing changed
Rerun ==
    Script([NoEvent EXCEPT !.kind = "rerun"], NoButton, text_widget, radio_widget)

\* the user clicks a quick-select button
PressButton ==
    \E b \in ButtonLabels :
        /\ text_widget.shown
        /\ Script([NoEvent EXCEPT !.kind = "button", !.button = b],
                  b, text_widget, radio_widget)

\* the user types into the free-text field and commits
TypeText ==
    \E t \in Texts :
        /\ text_widget.shown
        /\ Script([NoEvent EXCEPT !.kind = "text", !.text = t], NoButton,
                  [text_widget EXCEPT !.edited = TRUE, !.text = t], radio_widget)

\* the user picks the other display mode
SelectView ==
    \E m \in ViewOptions :
        /\ radio_widget.shown
        /\ m # radio_widget.value
        /\ Script([NoEvent EXCEPT !.kind = "radio", !.view = m], NoButton,
                  text_widget, [radio_widget EXCEPT !.value = m])

Next == Rerun \/ PressButton \/ TypeText \/ SelectView

Spec == Init /\ [][Next]_vars

\* The analysis of every dataset of the bounds: the page is opened and rerun,
\* nothing is clicked or typed.
InitAnalysis == file \in Datasets /\ NoSession
NextAnalysis == Rerun
SpecAnalysis == InitAnalysis /\ [][NextAnalysis]_vars

----------------------------------------------------------------------------
(* Properties *)

\* the last pass got past load_data
PassRan == out.status \notin {"none", "load_error"}

\* the symbol each quick-select button stands for (section 6 of the spec)
ButtonSymbol(b) ==
    CASE b = "TOX (Exhaustion)" -> TOX
      [] b = "CCR4 (Target)" -> CCR4
      [] b = "CD3E (T-Cell)" -> CD3E
      [] b = "MKI67 (Prolif.)" -> MKI67

SameLetter(a, b) ==
    a = b \/ \E i \in DOMAIN Lower : {a, b} = {Lower[i], UpperCase[i]}
SameUpToCase(s, t) ==
    Len(s) = Len(t) /\ \A i \in DOMAIN s : SameLetter(s[i], t[i])

\* C1: in every pass where the uppercased text of the free-text field is not
\* in the feature index, the not-found error is shown and there is no
\* embedding plot, no distribution plot and no insight summary or notice.
C1_NotFoundShowsOnlyError ==
    (PassRan /\ Upper(text_widget.text) \notin cache[1].var_names)
        => /\ out.error
           /\ out.gene_input = Upper(text_widget.text)
           /\ out.umap = <<>>
           /\ out.violin = <<>>
           /\ out.insight.kind = "none"

C1_Witness ==
    /\ event.kind = "text"
    /\ PassRan
    /\ Upper(event.text) \notin cache[1].var_names
    /\ out.error

\* C2 as claimed: whenever the gene is in the feature index, exactly one
\* embedding plot and exactly one distribution plot are produced, whatever
\* the outcome of the extraction.
C2_OnePlotEachWhateverExtraction ==
    (PassRan /\ out.gene_input \in cache[1].var_names)
        => Len(out.umap) = 1 /\ Len(out.violin) = 1

\* C2 amended: whenever the gene is in the feature index, exactly one
\* embedding plot is produced in either display mode; exactly one
\* distribution plot is produced when the sparse conversion or the dense
\* fallback succeeds, and none when both fail (the pass ends abnormally).
C2_OneEmbeddingAndViolinIfExtracted ==
    (PassRan /\ out.gene_input \in cache[1].var_names)
        => /\ Len(out.umap) = 1
           /\ out.view \in ViewOptions
           /\ cache[1].kind \in {"sparse", "dense"} => Len(out.violin) = 1
           /\ cache[1].kind = "backed" =>
                 out.violin = <<>> /\ out.status = "extraction_error"

C2_Witness ==
    /\ PassRan
    /\ out.gene_input \in cache[1].var_names
    /\ out.view = "Clinical Condition"
    /\ out.extraction = "flatten"
    /\ Len(out.umap) = 1 /\ Len(out.violin) = 1

\* numerator and denominator (positive) of mean_tumor - mean_eczema as shown
DiffNum == out.insight.mean_tumor.num * out.insight.mean_eczema.den
           - out.insight.mean_eczema.num * out.insight.mean_tumor.den
DiffDen == out.insight.mean_tumor.den * out.insight.mean_eczema.den
MeansDefined == ~out.insight.mean_tumor.nan /\ ~out.insight.mean_eczema.nan

\* C3: for defined means the tier is SIGNIFICANTLY HIGHER (red) exactly when
\* mean_tumor - mean_eczema > 0.5, Slightly Higher (orange) exactly when
\* 0 < mean_tumor - mean_eczema <= 0.5, Lower or Same (green) exactly when
\* mean_tumor <= mean_eczema, and exactly one of the three is chosen.
C3_TierByDifference ==
    (out.insight.kind = "summary" /\ MeansDefined)
        => /\ <<out.insight.trend, out.insight.color>> \in
                 { <<"SIGNIFICANTLY HIGHER", "#d9534f">>,
                   <<"Slightly Higher", "#f0ad4e">>,
                   <<"Lower or Same", "#5cb85c">> }
           /\ out.insight.trend = "SIGNIFICANTLY HIGHER" <=> 2 * DiffNum > DiffDen
           /\ out.insight.trend = "Slightly Higher"
                 <=> (DiffNum > 0 /\ 2 * DiffNum <= DiffDen)
           /\ out.insight.trend = "Lower or Same" <=> DiffNum <= 0

\* a difference of exactly 0.5 has been classified
C3_Witness ==
    /\ out.insight.kind = "summary"
    /\ MeansDefined
    /\ 2 * DiffNum = DiffDen
    /\ out.insight.trend = "Slightly Higher"

\* C4 as claimed: when the table has no row for CTCL (Tumor) or none for
\* Eczema (Benign), the pass shows the insufficient-data notice instead of
\* the summary with a tier.
C4_EmptyGroupGivesNotice ==
    (PassRan /\ out.violin # <<>>
       /\ (CountWhere(out.df_plot, TUMOR) = 0 \/ CountWhere(out.df_plot, ECZEMA) = 0))
        => out.insight.kind = "info"

\* C5 as claimed: the file is read at most once by the process.
C5_ReadAtMostOnce == reads <= 1

\* C5 amended: once an invocation of load_data has returned, the file is not
\* read again and every later invocation returns the same handle; the one
\* read that succeeds returns the content of the file.  A failed read is not
\* cached: the next pass reads the file again.
C5_NoReadAfterLoad ==
    [][ /\ cache # <<>> => (reads' = reads /\ cache' = cache)
        /\ (cache = <<>> /\ cache' # <<>>) => (reads' = reads + 1 /\ cache' = <<file>>)
      ]_vars

C5_Witness ==
    /\ cache = <<file>>
    /\ reads = 2
    /\ event.kind = "button"
    /\ PassRan

StoredGene(ss) == IF "gene" \in DOMAIN ss THEN ss["gene"] ELSE <<>>

\* C6 as claimed: the stored selection is TOX after the first pass of a
\* session, changes afterwards only in a pass where a button was pressed, to
\* that button's symbol, and is never changed by typing, while the uppercased
\* text is the gene of the pass in which it was typed.
C6_SelectionSetOnlyByButtons ==
    [][ /\ out.status = "none" => StoredGene(session_state') = TOX
        /\ (out.status # "none" /\ session_state' # session_state)
              => /\ event'.kind = "button"
                 /\ StoredGene(session_state') = ButtonSymbol(event'.button)
        /\ event'.kind = "text"
              => /\ session_state' = session_state
                 /\ out'.gene_input = Upper(event'.text)
      ]_vars

\* C6 amended: the stored selection is TOX after the first pass of a session
\* that gets past load_data (a pass in which the load fails leaves it unset);
\* once set it changes only in a pass where a button was pressed, to that
\* button's symbol; typing never changes it, while the uppercased text is the
\* gene of the pass in which it was typed.
C6_SelectionSetAfterLoadOnlyByButtons ==
    [][ /\ out'.status = "load_error" => session_state' = session_state
        /\ ("gene" \notin DOMAIN session_state /\ out'.status # "load_error")
              => StoredGene(session_state') = TOX
        /\ ("gene" \in DOMAIN session_state /\ session_state' # session_state)
              => /\ event'.kind = "button"
                 /\ StoredGene(session_state') = ButtonSymbol(event'.button)
        /\ event'.kind = "text"
              => /\ session_state' = session_state
                 /\ out'.gene_input = Upper(event'.text)
      ]_vars

C6_Witness ==
    /\ event.kind = "text"
    /\ StoredGene(session_state) = MKI67
    /\ out.gene_input = TOX
    /\ event.text # TOX

\* the output of the last pass had the text field held t instead
OutputForText(t) ==
    MainDashboard(cache[1],
                  Upper(TextInput([text_widget EXCEPT !.text = t], session_state["gene"])),
                  IF out.view = "" THEN Radio(radio_widget) ELSE out.view,
                  out.insight.kind = "info")

\* C7: two texts that differ only in letter case give, against the same
\* dataset, stored selection and display mode, the same membership result,
\* the same plots and the same insight output.
C7_CaseInsensitiveInput ==
    (event.kind = "text" /\ PassRan)
        => \A t \in Texts : SameUpToCase(event.text, t) => OutputForText(t) = out

C7_Witness ==
    /\ event.kind = "text"
    /\ event.text = <<"t", "o", "x">>
    /\ PassRan
    /\ out.violin # <<>>
    /\ \E t \in Texts : t # event.text /\ SameUpToCase(event.text, t)

\* the output of the last pass had the radio held the other display mode
OutputInOtherView ==
    MainDashboard(cache[1], out.gene_input,
                  CHOOSE m \in ViewOptions : m # out.view,
                  out.insight.kind = "info")

\* C8: for a gene of the feature index, the other display mode changes the
\* embedding plot's colour encoding, title and legend and nothing else: the
\* distribution plot, the table and the insight output are the same.
C8_ViewChangesOnlyEmbedding ==
    (PassRan /\ out.umap # <<>>)
        => /\ OutputInOtherView.violin = out.violin
           /\ OutputInOtherView.df_plot = out.df_plot
           /\ OutputInOtherView.insight = out.insight
           /\ [OutputInOtherView EXCEPT !.umap = out.umap, !.view = out.view] = out
           /\ Len(OutputInOtherView.umap) = 1
           /\ OutputInOtherView.umap[1].color # out.umap[1].color
           /\ OutputInOtherView.umap[1].title # out.umap[1].title
           /\ OutputInOtherView.umap[1].legend # out.umap[1].legend

C8_Witness ==
    /\ event.kind = "radio"
    /\ out.view = "Clinical Condition"
    /\ out.violin # <<>>
    /\ out.insight.kind = "summary"

\* C9: a pass ends abnormally only when the load fails or when the sparse
\* conversion and the dense fallback both fail; a gene that is not found and
\* a failure inside the insight computation end the pass normally with a
\* message.
C9_AbnormalEndOnlyLoadOrExtraction ==
    /\ out.status \in {"none", "ok", "load_error", "extraction_error"}
    /\ out.status = "load_error" => (cache = <<>> /\ reads > 0)
    /\ out.status = "extraction_error" =>
          (out.gene_input \in cache[1].var_names /\ cache[1].kind \notin {"sparse", "dense"})
    /\ (PassRan /\ out.gene_input \notin cache[1].var_names) =>
          (out.status = "ok" /\ out.error)
    /\ out.insight.kind = "info" => (out.status = "ok" /\ out.violin # <<>>)
    /\ (out.status = "ok" /\ ~out.error) => out.insight.kind \in {"summary", "info"}

C9_Witness ==
    /\ out.status = "ok"
    /\ out.insight.kind = "info"
    /\ out.violin # <<>>

\* C10 as claimed: in a pass triggered by a quick-select button the gene that
\* is looked up and rendered is the pressed button's symbol.
C10_ButtonGeneIsRendered ==
    (event.kind = "button" /\ PassRan) => out.gene_input = ButtonSymbol(event.button)

=============================================================================
